---- MODULE Spec2Model ----
(***************************************************************************)
(* Model of the CRISPR screen query layer (crispr_data_tools.py,            *)
(* streamlit_app.py, crispr-data_tools2.py).                                *)
(*                                                                          *)
(* The environment (the index table and the per-screen data files) is      *)
(* chosen in Init; every action is one call of a query function, recorded  *)
(* in op / arg / ret.  A call that ends in an uncaught Python exception    *)
(* has ret.raised = TRUE.  The chat page of streamlit_app.py is one       *)
(* action per run of the script with a button pressed (Send, Reset).       *)
(*                                                                          *)
(* Strings are sequences of character codes, so that str.lower(), token    *)
(* sorting and the similarity ratio are computed, not assumed.             *)
(***************************************************************************)
EXTENDS Integers, Sequences, FiniteSets, TLC

VARIABLES index_df, files, virus_options, cell_line_options, species_options,
          op, arg, ret, chat_history, last_raw_response

vars == <<index_df, files, virus_options, cell_line_options, species_options,
          op, arg, ret, chat_history, last_raw_response>>

env == <<index_df, files, virus_options, cell_line_options, species_options>>

\* st.session_state of the chat page.
session == <<chat_history, last_raw_response>>

----------------------------------------------------------------------------
(* Values.                                                                  *)

\* A missing (null) string cell: pandas None/NaN, SQL NULL.  No character
\* has a negative code, so NULL differs from every string.
NULL == <<-1>>

\* A missing numeric cell.  Scores and identifiers are never negative.
NaN == -1

\* Character-code spellings of the literals used below.
TP53 == <<84, 80, 53, 51>>
tp53 == <<116, 112, 53, 51>>
BRCA1 == <<66, 82, 67, 65, 49>>
YES == <<89, 69, 83>>
NO == <<78, 79>>
A549 == <<65, 53, 52, 57>>
HeLa == <<72, 101, 76, 97>>
Human == <<72, 117, 109, 97, 110>>
Str_ab == <<97, 98>>
Str_AB == <<65, 66>>
Str_AC == <<65, 67>>
Str_b_a == <<98, 32, 97>>
Str_a_b == <<97, 32, 98>>
Str_zz == <<122, 122>>

SCREEN_ID == "SCREEN_ID"
CONDITION_NAME == "CONDITION_NAME"
CELL_LINE == "CELL_LINE"
ORGANISM_OFFICIAL == "ORGANISM_OFFICIAL"
OFFICIAL_SYMBOL == "OFFICIAL_SYMBOL"
HIT == "HIT"
SCORE2 == "SCORE.2 (pos_fdr)"

NumericCols == {SCREEN_ID, SCORE2}

IsNull(v) == v = NULL

----------------------------------------------------------------------------
(* Sequence helpers.                                                        *)

Range(s) == {s[i] : i \in 1..Len(s)}

SeqsUpTo(S, n) == UNION {[1..k -> S] : k \in 0..n}

RECURSIVE Flatten(_)
Flatten(ss) ==
    IF ss = <<>> THEN <<>> ELSE Head(ss) \o Flatten(Tail(ss))

\* Series.dropna(): the non-null values, order kept.
DropNa(s) == SelectSeq(s, LAMBDA v : ~IsNull(v))

\* Series.unique(): the distinct values in order of first appearance.
RECURSIVE UniqueFrom(_, _)
UniqueFrom(s, seen) ==
    IF s = <<>> THEN <<>>
    ELSE IF Head(s) \in seen THEN UniqueFrom(Tail(s), seen)
    ELSE <<Head(s)>> \o UniqueFrom(Tail(s), seen \cup {Head(s)})

Unique(s) == UniqueFrom(s, {})

----------------------------------------------------------------------------
(* Data frames: a set of column names and a sequence of rows, each row a   *)
(* function from the column names to cell values.                          *)

DataFrame(cols, rows) == [cols |-> cols, rows |-> rows]

\* pd.DataFrame()
EmptyFrame == DataFrame({}, <<>>)

\* DataFrame.empty
IsEmpty(df) == df.rows = <<>> \/ df.cols = {}

\* df[col] as a sequence of cells
Column(df, col) == [i \in 1..Len(df.rows) |-> df.rows[i][col]]

\* df[mask]
Filter(df, Keep(_)) == DataFrame(df.cols, SelectSeq(df.rows, Keep))

NullOf(col) == IF col \in NumericCols THEN NaN ELSE NULL

\* pd.concat(frames, ignore_index=True): rows in order, over the union of
\* the columns, a column a frame lacks filled with nulls.
Concat(frames) ==
    LET cols == UNION {frames[i].cols : i \in 1..Len(frames)}
        Widen(df) == [i \in 1..Len(df.rows) |->
                        [c \in cols |-> IF c \in df.cols THEN df.rows[i][c]
                                        ELSE NullOf(c)]]
    IN DataFrame(cols, Flatten([i \in 1..Len(frames) |-> Widen(frames[i])]))

----------------------------------------------------------------------------
(* Controlled vocabularies (module level, computed once at import).         *)

OptionsMutant(df, col) ==
    IF col \in df.cols THEN DropNa(Column(df, col)) ELSE <<>>

Options(df, col) ==
    IF col \in df.cols THEN Unique(DropNa(Column(df, col))) ELSE <<>>

----------------------------------------------------------------------------
(* Strings: str.lower() and rapidfuzz's fuzz.token_sort_ratio.              *)

LowerChar(c) == IF c >= 65 /\ c <= 90 THEN c + 32 ELSE c

\* str.lower()
Lower(s) == [i \in 1..Len(s) |-> LowerChar(s[i])]

IsSpace(c) == c = 32

\* str.split(): the maximal runs of non-space characters.
RECURSIVE SplitFrom(_, _)
SplitFrom(s, cur) ==
    IF s = <<>> THEN (IF cur = <<>> THEN <<>> ELSE <<cur>>)
    ELSE IF IsSpace(Head(s))
         THEN (IF cur = <<>> THEN <<>> ELSE <<cur>>) \o SplitFrom(Tail(s), <<>>)
         ELSE SplitFrom(Tail(s), Append(cur, Head(s)))

Split(s) == SplitFrom(s, <<>>)

\* Lexicographic order on strings (Python's str <).
RECURSIVE StrLess(_, _)
StrLess(a, b) ==
    IF b = <<>> THEN FALSE
    ELSE IF a = <<>> THEN TRUE
    ELSE IF Head(a) # Head(b) THEN Head(a) < Head(b)
    ELSE StrLess(Tail(a), Tail(b))

RECURSIVE InsertSorted(_, _)
InsertSorted(t, ts) ==
    IF ts = <<>> THEN <<t>>
    ELSE IF StrLess(t, Head(ts)) THEN <<t>> \o ts
    ELSE <<Head(ts)>> \o InsertSorted(t, Tail(ts))

\* sorted(tokens)
RECURSIVE SortTokens(_)
SortTokens(ts) ==
    IF ts = <<>> THEN <<>> ELSE InsertSorted(Head(ts), SortTokens(Tail(ts)))

\* " ".join(tokens)
RECURSIVE Join(_)
Join(ts) ==
    IF ts = <<>> THEN <<>>
    ELSE IF Len(ts) = 1 THEN Head(ts)
    ELSE Head(ts) \o <<32>> \o Join(Tail(ts))

TokenSort(s) == Join(SortTokens(Split(s)))

\* Length of a longest common subsequence.
RECURSIVE LCS(_, _)
LCS(a, b) ==
    IF a = <<>> \/ b = <<>> THEN 0
    ELSE IF Head(a) = Head(b) THEN 1 + LCS(Tail(a), Tail(b))
    ELSE LET x == LCS(Tail(a), b)
             y == LCS(a, Tail(b))
         IN IF x >= y THEN x ELSE y

\* fuzz.ratio: the normalised Indel similarity times 100, kept as the exact
\* fraction num/den (100 * (1 - (la + lb - 2*lcs) / (la + lb))).
Ratio(a, b) ==
    IF Len(a) + Len(b) = 0 THEN [num |-> 100, den |-> 1]
    ELSE [num |-> 200 * LCS(a, b), den |-> Len(a) + Len(b)]

\* fuzz.token_sort_ratio(query, choice)
TokenSortRatio(a, b) == Ratio(TokenSort(a), TokenSort(b))

ScoreGreater(s, t) == s.num * t.den > t.num * s.den

\* score > threshold, threshold an integer
ExceedsMutant(score, threshold) == score.num >= threshold * score.den

Exceeds(score, threshold) == score.num > threshold * score.den

ScoreEquals(score, n) == score.num = n * score.den

\* What extractOne returns when nothing was offered to it, or was not asked.
NoBest == [found |-> FALSE, choice |-> NULL, score |-> [num |-> 0, den |-> 1]]

\* process.extractOne(query, choices, scorer=fuzz.token_sort_ratio): the
\* first choice of maximal score with its score, or found = FALSE (Python
\* None) when there is no choice.
RECURSIVE ExtractFrom(_, _, _)
ExtractFrom(query, choices, best) ==
    IF choices = <<>> THEN best
    ELSE LET sc == TokenSortRatio(query, Head(choices))
         IN IF ~best.found \/ ScoreGreater(sc, best.score)
            THEN ExtractFrom(query, Tail(choices),
                             [found |-> TRUE, choice |-> Head(choices), score |-> sc])
            ELSE ExtractFrom(query, Tail(choices), best)

ExtractOne(query, choices) == ExtractFrom(query, choices, NoBest)

----------------------------------------------------------------------------
(* Optional arguments and call outcomes.                                    *)

None == [kind |-> "none"]
AStr(v) == [kind |-> "str", s |-> v]
AList(v) == [kind |-> "list", v |-> v]
AInt(v) == [kind |-> "int", n |-> v]
ANum(v) == [kind |-> "num", x |-> v]

\* An uncaught exception.
Raise == [raised |-> TRUE, df |-> EmptyFrame]

Return(df) == [raised |-> FALSE, df |-> df]

\* isinstance(x, str) / isinstance(x, (str, int)): wrap a scalar in a list.
AsList(a) ==
    CASE a.kind = "list" -> a.v
      [] a.kind = "str" -> <<a.s>>
      [] a.kind = "int" -> <<a.n>>

----------------------------------------------------------------------------
(* Filtered Screen Reader.                                                  *)

\* A data file: missing, present but not readable as a table, or a table.
MissingFile == [status |-> "missing", df |-> EmptyFrame]
UnreadableFile == [status |-> "unreadable", df |-> EmptyFrame]
TableFile(df) == [status |-> "ok", df |-> df]

\* The where_clauses list.
WhereClauses(gene_symbols, hit_value, score2_max) ==
    (IF gene_symbols.kind # "none"
        THEN <<[col |-> OFFICIAL_SYMBOL, test |-> "in", v |-> AsList(gene_symbols)]>>
        ELSE <<>>)
    \o (IF hit_value.kind # "none"
        THEN <<[col |-> HIT, test |-> "eq", v |-> hit_value.s]>>
        ELSE <<>>)
    \o (IF score2_max.kind # "none"
        THEN <<[col |-> SCORE2, test |-> "le", v |-> score2_max.x]>>
        ELSE <<>>)

\* SQL three-valued value of one clause on one row.
EvalClause(row, c) ==
    CASE c.test = "in" ->
           IF IsNull(row[c.col]) THEN "null"
           ELSE IF row[c.col] \in Range(c.v) THEN "true" ELSE "false"
      [] c.test = "eq" ->
           IF IsNull(row[c.col]) THEN "null"
           ELSE IF row[c.col] = c.v THEN "true" ELSE "false"
      [] c.test = "le" ->
           IF row[c.col] = NaN THEN "null"
           ELSE IF row[c.col] <= c.v THEN "true" ELSE "false"

\* WHERE c1 AND c2 AND ...: a row is selected when the conjunction is true.
WhereMutant(row, clauses) ==
    clauses = <<>> \/ \E i \in 1..Len(clauses) : EvalClause(row, clauses[i]) = "true"

Where(row, clauses) ==
    \A i \in 1..Len(clauses) : EvalClause(row, clauses[i]) = "true"

\* SELECT *, <screen_id> AS SCREEN_ID
WithScreenId(row, screen_id) ==
    [c \in DOMAIN row \cup {SCREEN_ID} |->
        IF c = SCREEN_ID THEN screen_id ELSE row[c]]

\* load_screen_tab_filtered: the query engine raises when the file cannot
\* be read or a filtered column does not exist; nothing catches it.
load_screen_tab_filtered(fs, screen_id, gene_symbols, hit_value, score2_max) ==
    LET clauses == WhereClauses(gene_symbols, hit_value, score2_max)
        f == fs[screen_id]
    IN IF f.status # "ok" THEN Raise
       ELSE IF \E i \in 1..Len(clauses) : clauses[i].col \notin f.df.cols THEN Raise
       ELSE LET kept == SelectSeq(f.df.rows, LAMBDA r : Where(r, clauses))
            IN Return(DataFrame(f.df.cols \cup {SCREEN_ID},
                                [i \in 1..Len(kept) |-> WithScreenId(kept[i], screen_id)]))

----------------------------------------------------------------------------
(* Aggregators.                                                             *)

\* index_df[index_df['SCREEN_ID'] == screen_id]
Meta(idx, screen_id) == Filter(idx, LAMBDA r : r[SCREEN_ID] = screen_id)

\* for col in meta.columns: if col not in df.columns: df.loc[:, col] = meta.iloc[0][col]
EnrichMutant(df, meta) ==
    DataFrame(df.cols \cup meta.cols,
              [i \in 1..Len(df.rows) |->
                 [c \in df.cols \cup meta.cols |->
                    IF c \in meta.cols THEN meta.rows[1][c] ELSE df.rows[i][c]]])

Enrich(df, meta) ==
    DataFrame(df.cols \cup meta.cols,
              [i \in 1..Len(df.rows) |->
                 [c \in df.cols \cup meta.cols |->
                    IF c \notin df.cols THEN meta.rows[1][c] ELSE df.rows[i][c]]])

\* The outcome of a loop body sequence: the frames appended to results, or
\* the exception that left the loop.
Frames(fr) == [raised |-> FALSE, frames |-> fr]
RaiseInLoop == [raised |-> TRUE, frames |-> <<>>]

\* Put the frame of the current iteration in front of the later ones.
PrependMutant(fr, rest) == rest \o fr

Prepend(fr, rest) == fr \o rest

\* if results: return pd.concat(results, ignore_index=True)
\* return pd.DataFrame()
Collect(loop) ==
    IF loop.raised THEN Raise
    ELSE IF loop.frames # <<>> THEN Return(Concat(loop.frames))
    ELSE Return(EmptyFrame)

\* The loop of get_results_by_genes over the remaining screen ids.
RECURSIVE GenesLoop(_, _, _, _)
GenesLoop(ids, gene_symbols, idx, fs) ==
    IF ids = <<>> THEN Frames(<<>>)
    ELSE LET r == load_screen_tab_filtered(fs, Head(ids), AList(gene_symbols), None, None)
         IN IF r.raised THEN RaiseInLoop
            ELSE LET rest == GenesLoop(Tail(ids), gene_symbols, idx, fs)
                 IN IF rest.raised THEN RaiseInLoop
                    ELSE Frames(Prepend(IF ~IsEmpty(r.df)
                                           THEN <<Enrich(r.df, Meta(idx, Head(ids)))>>
                                           ELSE <<>>,
                                        rest.frames))

get_results_by_genes(gene_symbols, idx, fs) ==
    Collect(GenesLoop(Unique(Column(idx, SCREEN_ID)), AsList(gene_symbols), idx, fs))

\* The loop of get_results_by_screens over the remaining screen ids.
RECURSIVE ScreensLoop(_, _)
ScreensLoop(ids, fs) ==
    IF ids = <<>> THEN Frames(<<>>)
    ELSE LET r == load_screen_tab_filtered(fs, Head(ids), None, None, None)
         IN IF r.raised THEN RaiseInLoop
            ELSE LET rest == ScreensLoop(Tail(ids), fs)
                 IN IF rest.raised THEN RaiseInLoop
                    ELSE Frames(Prepend(IF ~IsEmpty(r.df) THEN <<r.df>> ELSE <<>>,
                                        rest.frames))

get_results_by_screens(screen_ids, fs) ==
    Collect(ScreensLoop(AsList(screen_ids), fs))

----------------------------------------------------------------------------
(* Condition Matcher.                                                       *)

\* index_df[index_df[virus_col].str.lower() == virus_query.lower()]
ExactRows(idx, virus_col, virus_query) ==
    Filter(idx, LAMBDA r : ~IsNull(r[virus_col])
                           /\ Lower(r[virus_col]) = Lower(virus_query))

\* The screen ids of the index rows whose condition equals best_match.
RowsOfMatch(idx, virus_col, best_match) ==
    Unique(Column(Filter(idx, LAMBDA r : r[virus_col] = best_match), SCREEN_ID))

\* The locals of get_results_by_condition where it stops resolving: how the
\* query was resolved, extractOne's answer when it was asked, and the
\* screen_ids handed to get_results_by_screens.  "error" is an uncaught
\* exception: the KeyError of a missing column, or the TypeError of
\* unpacking extractOne's None.
ResolveMutant(virus_query, idx, virus_col, threshold) ==
    IF virus_col \notin idx.cols
    THEN [how |-> "error", best |-> NoBest, screen_ids |-> <<>>]
    ELSE LET exact == ExactRows(idx, virus_col, virus_query)
             best == ExtractOne(virus_query, Unique(DropNa(Column(idx, virus_col))))
         IN IF best.found /\ Exceeds(best.score, threshold)
            THEN [how |-> "approx", best |-> best,
                  screen_ids |-> RowsOfMatch(idx, virus_col, best.choice)]
            ELSE IF ~IsEmpty(exact)
            THEN [how |-> "exact", best |-> NoBest,
                  screen_ids |-> Unique(Column(exact, SCREEN_ID))]
            ELSE IF ~best.found
            THEN [how |-> "error", best |-> best, screen_ids |-> <<>>]
            ELSE [how |-> "nomatch", best |-> best, screen_ids |-> <<>>]

Resolve(virus_query, idx, virus_col, threshold) ==
    IF virus_col \notin idx.cols
    THEN [how |-> "error", best |-> NoBest, screen_ids |-> <<>>]
    ELSE LET exact == ExactRows(idx, virus_col, virus_query)
             best == ExtractOne(virus_query, Unique(DropNa(Column(idx, virus_col))))
         IN IF ~IsEmpty(exact)
            THEN [how |-> "exact", best |-> NoBest,
                  screen_ids |-> Unique(Column(exact, SCREEN_ID))]
            ELSE IF ~best.found
            THEN [how |-> "error", best |-> best, screen_ids |-> <<>>]
            ELSE IF Exceeds(best.score, threshold)
            THEN [how |-> "approx", best |-> best,
                  screen_ids |-> RowsOfMatch(idx, virus_col, best.choice)]
            ELSE [how |-> "nomatch", best |-> best, screen_ids |-> <<>>]

get_results_by_condition(virus_query, idx, fs, virus_col, threshold) ==
    LET res == Resolve(virus_query, idx, virus_col, threshold)
        out == CASE res.how = "error" -> Raise
                 [] res.how = "nomatch" -> Return(EmptyFrame)
                 [] OTHER -> get_results_by_screens(AList(res.screen_ids), fs)
    IN [raised |-> out.raised, df |-> out.df, how |-> res.how,
        screen_ids |-> res.screen_ids, best |-> res.best]

----------------------------------------------------------------------------
(* crispr-data_tools2.py: the local-file variant.                           *)

\* BioGRIDScreen.get_gene_row
get_gene_row(df, gene_symbol) ==
    Filter(df, LAMBDA r : ~IsNull(r[OFFICIAL_SYMBOL]) /\ r[OFFICIAL_SYMBOL] = gene_symbol)

\* BioGRIDIndex.get_screen_metadata: the first index row of the screen.
get_screen_metadata(idx, screen_id) == Meta(idx, screen_id).rows[1]

\* query_gene_across_screens: a missing file is skipped (os.path.exists);
\* pd.read_csv raises on a file it cannot read.
RECURSIVE GeneAcrossLoop(_, _, _, _)
GeneAcrossLoop(ids, gene_symbol, idx, fs) ==
    IF ids = <<>> THEN [raised |-> FALSE, results |-> <<>>]
    ELSE LET f == fs[Head(ids)]
             rest == GeneAcrossLoop(Tail(ids), gene_symbol, idx, fs)
         IN IF f.status = "missing" THEN rest
            ELSE IF f.status = "unreadable" THEN [raised |-> TRUE, results |-> <<>>]
            ELSE IF rest.raised THEN rest
            ELSE LET gene_row == get_gene_row(f.df, gene_symbol)
                 IN IF IsEmpty(gene_row) THEN rest
                    ELSE [raised |-> FALSE,
                          results |-> <<[screen_id |-> Head(ids),
                                         metadata |-> get_screen_metadata(idx, Head(ids)),
                                         gene_result |-> gene_row.rows]>>
                                      \o rest.results]

query_gene_across_screens(gene_symbol, idx, fs) ==
    GeneAcrossLoop(Column(idx, SCREEN_ID), gene_symbol, idx, fs)

----------------------------------------------------------------------------
(* Bounds and input pools.                                                  *)

\* Longest index table, in rows.
MaxIndexRows == 2
\* Longest screen table of the aggregation runs, in rows.
MaxRows == 2
\* Longest screen table of the reader runs, in rows.
MaxReadRows == 2
\* Longest index table of the vocabulary runs, in rows.
MaxVocabRows == 3
\* Longest list of screen ids requested from get_results_by_screens.
MaxReq == 3

\* threshold=70
DefaultThreshold == 70

ScreenIds == {1, 2}

\* One row of a screen table over the columns cols.
ScreenRow(cols, symbol, hit, score, cell) ==
    [c \in cols |-> CASE c = OFFICIAL_SYMBOL -> symbol
                      [] c = HIT -> hit
                      [] c = SCORE2 -> score
                      [] c = CELL_LINE -> cell]

\* One row of the index table over the columns cols.
IndexRow(cols, id, condition, cell, organism) ==
    [c \in cols |-> CASE c = SCREEN_ID -> id
                      [] c = CONDITION_NAME -> condition
                      [] c = CELL_LINE -> cell
                      [] c = ORGANISM_OFFICIAL -> organism]

ScreenCols == {OFFICIAL_SYMBOL, HIT, SCORE2}

\* Screen tables of the aggregation runs.  The files of one data set share
\* one header, with or without a CELL_LINE column of their own.
AggRows(cols) == {ScreenRow(cols, g, YES, 1, HeLa) : g \in {TP53, BRCA1}}
AggTables(cols, n) == {DataFrame(cols, rows) : rows \in SeqsUpTo(AggRows(cols), n)}
AggFiles(n) ==
    [ScreenIds -> {MissingFile, UnreadableFile} \cup {TableFile(t) : t \in AggTables(ScreenCols, n)}]
    \cup [ScreenIds -> {MissingFile, UnreadableFile}
                        \cup {TableFile(t) : t \in AggTables(ScreenCols \cup {CELL_LINE}, n)}]
AggIndexCols == {SCREEN_ID, CONDITION_NAME, CELL_LINE}
AggIndexRows ==
    {IndexRow(AggIndexCols, id, c, A549, NULL) : id \in ScreenIds, c \in {Str_ab, NULL}}
AggIndexes(n) ==
    {DataFrame(AggIndexCols, rows) : rows \in SeqsUpTo(AggIndexRows, n)}

\* Screen tables of the reader runs: every combination of symbol, hit flag
\* and score, nulls included.
ReadRows ==
    {ScreenRow(ScreenCols, g, h, x, NULL) :
        g \in {TP53, BRCA1, NULL}, h \in {YES, NO, NULL}, x \in {1, 5, NaN}}
ReadTables(n) == {DataFrame(ScreenCols, rows) : rows \in SeqsUpTo(ReadRows, n)}
\* The file of one screen varies; no other screen has a file.
ReadFiles(n) ==
    {[id \in ScreenIds |-> IF id = 1 THEN f ELSE MissingFile] :
        f \in {MissingFile, UnreadableFile} \cup {TableFile(t) : t \in ReadTables(n)}}
GeneFilters == {None, AStr(TP53), AList(<<tp53>>), AList(<<TP53, BRCA1>>)}
HitFilters == {None, AStr(YES)}
ScoreFilters == {None, ANum(1)}

\* Index tables of the condition runs, one of them without the condition
\* column; each screen has a one-row table or no file.
CondIndexCols == {SCREEN_ID, CONDITION_NAME}
CondIndexRows ==
    {IndexRow(CondIndexCols, id, c, NULL, NULL) :
        id \in ScreenIds, c \in {Str_ab, Str_AC, Str_b_a, NULL}}
CondIndexes(n) ==
    {DataFrame(CondIndexCols, rows) : rows \in SeqsUpTo(CondIndexRows, n)}
    \cup {DataFrame({SCREEN_ID}, <<IndexRow({SCREEN_ID}, 1, NULL, NULL, NULL)>>)}
CondFiles ==
    [ScreenIds -> {MissingFile,
                   TableFile(DataFrame(ScreenCols,
                                       <<ScreenRow(ScreenCols, TP53, YES, 1, NULL)>>))}]
Queries == {Str_AB, Str_a_b, Str_zz}
Thresholds == {49, 50, 51, DefaultThreshold}

\* Index tables of the vocabulary runs, over several column sets.
VocabColSets ==
    {{SCREEN_ID}, {SCREEN_ID, CONDITION_NAME}, {SCREEN_ID, CELL_LINE, ORGANISM_OFFICIAL},
     {SCREEN_ID, CONDITION_NAME, CELL_LINE, ORGANISM_OFFICIAL}}
VocabRows(cols) ==
    {IndexRow(cols, 1, c, l, o) :
        c \in {Str_ab, Str_AC, NULL}, l \in {A549, NULL}, o \in {Human, NULL}}
VocabIndexes(n) ==
    UNION {{DataFrame(cols, rows) : rows \in SeqsUpTo(VocabRows(cols), n)} :
             cols \in VocabColSets}
NoFiles == {[id \in ScreenIds |-> MissingFile]}

GeneArgs == {AStr(TP53), AList(<<tp53>>), AList(<<BRCA1>>), AList(<<TP53, BRCA1>>)}
ScreenArgs(n) == {AInt(i) : i \in ScreenIds} \cup {AList(s) : s \in SeqsUpTo(ScreenIds, n)}

----------------------------------------------------------------------------
(* The chat page: system prompt, agent outcomes, session state.            *)

\* str.strip(): drop the whitespace at both ends.
RECURSIVE LStrip(_)
LStrip(s) ==
    IF s # <<>> /\ IsSpace(Head(s)) THEN LStrip(Tail(s)) ELSE s

RECURSIVE RStrip(_)
RStrip(s) ==
    IF s # <<>> /\ IsSpace(s[Len(s)]) THEN RStrip(SubSeq(s, 1, Len(s) - 1)) ELSE s

Strip(s) == RStrip(LStrip(s))

\* ', '.join(options[:10])
RECURSIVE CommaJoin(_)
CommaJoin(ts) ==
    IF ts = <<>> THEN <<>>
    ELSE IF Len(ts) = 1 THEN Head(ts)
    ELSE Head(ts) \o <<44, 32>> \o CommaJoin(Tail(ts))

FirstTen(options) == SubSeq(options, 1, IF Len(options) < 10 THEN Len(options) ELSE 10)

\* The fixed pieces of the prompt text, abbreviated to their first letters:
\* "You are an expert ...", "... ", "When a user asks ...".
PromptIntro == <<89, 111, 117>>
PromptDots == <<46, 46, 46, 32>>
PromptRules == <<87, 104, 101, 110>>

\* system_prompt, built from the first ten entries of each vocabulary.
system_prompt(viruses, cell_lines, species) ==
    PromptIntro \o CommaJoin(FirstTen(viruses)) \o PromptDots
                \o CommaJoin(FirstTen(cell_lines)) \o PromptDots
                \o CommaJoin(FirstTen(species)) \o PromptDots \o PromptRules

\* One (role, msg) entry of chat_history.
Entry(role, msg) == <<role, msg>>

SystemEntry == Entry("system", system_prompt(virus_options, cell_line_options, species_options))

\* agent.invoke(...) is a call into the agent framework and the hosted
\* model: it either raises or returns a response whose last message is the
\* reply, with or without intermediate steps.
AgentRaises == [raised |-> TRUE, reply |-> <<>>, steps |-> <<>>]
AgentReturns(reply, steps) == [raised |-> FALSE, reply |-> reply, steps |-> steps]

\* "**Tool Trace:**..." with the step's tool, input and output filled in;
\* the fixed text is abbreviated to "T:".
TraceMsg(step) == <<84, 58>> \o step.tool \o <<32>> \o step.tool_input \o <<32>> \o step.output

RECURSIVE Traces(_)
Traces(steps) ==
    IF steps = <<>> THEN <<>>
    ELSE <<Entry("trace", TraceMsg(Head(steps)))>> \o Traces(Tail(steps))

\* First run of the page in a session: the state entries are created.
SessionStart ==
    /\ chat_history = <<SystemEntry>>
    /\ last_raw_response = None

----------------------------------------------------------------------------
(* The state machine.                                                       *)

\* Module import: the index is loaded and the vocabularies are derived.
Import(indexes, fileEnvs) ==
    /\ index_df \in indexes
    /\ files \in fileEnvs
    /\ virus_options = Options(index_df, CONDITION_NAME)
    /\ cell_line_options = Options(index_df, CELL_LINE)
    /\ species_options = Options(index_df, ORGANISM_OFFICIAL)
    /\ op = "idle"
    /\ arg = None
    /\ ret = Return(EmptyFrame)
    /\ SessionStart

\* One call of a query function from the idle prompt, run to its end.
Call(name, a, r) ==
    /\ op = "idle"
    /\ op' = name
    /\ arg' = a
    /\ ret' = r
    /\ UNCHANGED <<env, session>>

GetResultsByGenes ==
    \E g \in GeneArgs :
        Call("get_results_by_genes", [gene_symbols |-> g],
             get_results_by_genes(g, index_df, files))

GetResultsByScreens ==
    \E ids \in ScreenArgs(MaxReq) :
        Call("get_results_by_screens", [screen_ids |-> ids],
             get_results_by_screens(ids, files))

GetResultsByCondition ==
    \E q \in {Str_AB, Str_zz} :
        Call("get_results_by_condition",
             [virus_query |-> q, threshold |-> DefaultThreshold],
             get_results_by_condition(q, index_df, files, CONDITION_NAME, DefaultThreshold))

QueryGeneAcrossScreens ==
    \E g \in {TP53, tp53, BRCA1} :
        Call("query_gene_across_screens", [gene_symbol |-> g],
             query_gene_across_screens(g, index_df, files))

\* The caller takes the result; the next call can start.
Finish ==
    /\ op # "idle"
    /\ op' = "idle"
    /\ arg' = None
    /\ ret' = Return(EmptyFrame)
    /\ UNCHANGED <<env, session>>

Init == Import(AggIndexes(MaxIndexRows), AggFiles(MaxRows))

Next ==
    \/ GetResultsByGenes
    \/ GetResultsByScreens
    \/ GetResultsByCondition
    \/ QueryGeneAcrossScreens
    \/ Finish

Spec == Init /\ [][Next]_vars

----------------------------------------------------------------------------
(* The reader on its own.                                                   *)

LoadScreenTabFiltered ==
    \E id \in ScreenIds, g \in GeneFilters, h \in HitFilters, x \in ScoreFilters :
        Call("load_screen_tab_filtered",
             [screen_id |-> id, gene_symbols |-> g, hit_value |-> h, score2_max |-> x],
             load_screen_tab_filtered(files, id, g, h, x))

InitRead == Import({DataFrame({SCREEN_ID}, <<>>)}, ReadFiles(MaxReadRows))

NextRead ==
    \/ LoadScreenTabFiltered
    \/ Finish

SpecRead == InitRead /\ [][NextRead]_vars

----------------------------------------------------------------------------
(* The condition matcher over queries and thresholds.                       *)

MatchCondition ==
    \E q \in Queries, t \in Thresholds :
        Call("get_results_by_condition", [virus_query |-> q, threshold |-> t],
             get_results_by_condition(q, index_df, files, CONDITION_NAME, t))

InitCond == Import(CondIndexes(MaxIndexRows), CondFiles)

NextCond ==
    \/ MatchCondition
    \/ Finish

SpecCond == InitCond /\ [][NextCond]_vars

----------------------------------------------------------------------------
(* The vocabulary lists.                                                    *)

List(options) == [raised |-> FALSE, list |-> options]

ListViruses == Call("list_viruses", None, List(virus_options))

ListCellLines == Call("list_cell_lines", None, List(cell_line_options))

ListSpecies == Call("list_species", None, List(species_options))

InitVocab == Import(VocabIndexes(MaxVocabRows), NoFiles)

NextVocab ==
    \/ ListViruses
    \/ ListCellLines
    \/ ListSpecies
    \/ Finish

SpecVocab == InitVocab /\ [][NextVocab]_vars

----------------------------------------------------------------------------
(* The chat page: one action per run of the script with a button pressed.  *)

\* Longest transcript from which a message is still sent, in entries.
MaxHistory == 4
\* Most intermediate steps in one agent response.
MaxSteps == 1

Str_GeneQuery == <<71, 81>>

UserInputs == {<<>>, <<32, 32>>, Str_ab, <<32, 97, 98, 32>>, Str_a_b}
Replies == {Str_zz, <<>>}
Steps == {[tool |-> Str_GeneQuery, tool_input |-> TP53, output |-> Str_zz]}
AgentOutcomes(n) ==
    {AgentRaises} \cup {AgentReturns(r, st) : r \in Replies, st \in SeqsUpTo(Steps, n)}
ChatIndexes ==
    {DataFrame({SCREEN_ID}, <<>>),
     DataFrame({SCREEN_ID, CONDITION_NAME, CELL_LINE, ORGANISM_OFFICIAL},
               <<IndexRow({SCREEN_ID, CONDITION_NAME, CELL_LINE, ORGANISM_OFFICIAL},
                          1, Str_ab, A549, Human),
                 IndexRow({SCREEN_ID, CONDITION_NAME, CELL_LINE, ORGANISM_OFFICIAL},
                          2, Str_AC, HeLa, Human)>>)}

\* "Reset Conversation" pressed.
Reset ==
    /\ chat_history' = <<SystemEntry>>
    /\ op' = "reset"
    /\ arg' = None
    /\ ret' = Return(EmptyFrame)
    /\ UNCHANGED <<env, last_raw_response>>

\* "Send" pressed with user_input in the text area; response is what
\* agent.invoke does when it is reached.
HandleInput(user_input, response) ==
    IF Strip(user_input) = <<>>
    THEN /\ ret' = Return(EmptyFrame)
         /\ UNCHANGED session
    ELSE LET asked == Append(chat_history, Entry("human", Strip(user_input)))
         IN IF response.raised
            THEN /\ chat_history' = asked
                 /\ ret' = Raise
                 /\ UNCHANGED last_raw_response
            ELSE /\ chat_history' =
                        Append(asked, Entry("ai", response.reply)) \o Traces(response.steps)
                 /\ last_raw_response' = AStr(response.reply)
                 /\ ret' = Return(EmptyFrame)

Send ==
    /\ Len(chat_history) < MaxHistory
    /\ \E user_input \in UserInputs, response \in AgentOutcomes(MaxSteps) :
          /\ HandleInput(user_input, response)
          /\ op' = "send"
          /\ arg' = [user_input |-> user_input]
    /\ UNCHANGED env

InitChat == Import(ChatIndexes, NoFiles)

NextChat ==
    \/ Send
    \/ Reset

SpecChat == InitChat /\ [][NextChat]_vars

----------------------------------------------------------------------------
(* Reading a call's result.                                                 *)

\* The SCREEN_ID of every row of a result table, in row order.
OutIds(df) == IF SCREEN_ID \in df.cols THEN Column(df, SCREEN_ID) ELSE <<>>

Readable(id) == files[id].status = "ok"

\* The rows of screen id's file, none when it cannot be read.
FileRows(id) == IF Readable(id) THEN files[id].df.rows ELSE <<>>

\* The rows of screen id's file whose symbol is one of genes.
Matching(id, genes) ==
    SelectSeq(FileRows(id), LAMBDA r : \E k \in 1..Len(genes) : r[OFFICIAL_SYMBOL] = genes[k])

\* Row out carries every cell of the file row src, and screen id.
Carries(out, src, id) ==
    /\ DOMAIN src \subseteq DOMAIN out
    /\ SCREEN_ID \in DOMAIN out
    /\ out[SCREEN_ID] = id
    /\ \A c \in DOMAIN src : out[c] = src[c]

\* <<id, id, ...>>, n times.
Repeat(id, n) == [k \in 1..n |-> id]

IndexIds == Unique(Column(index_df, SCREEN_ID))

NoDuplicates(seq) == \A i, j \in 1..Len(seq) : seq[i] = seq[j] => i = j

\* All entries of ids that name one screen are adjacent.
Contiguous(ids) ==
    \A i, j, k \in 1..Len(ids) : (i < j /\ j < k /\ ids[i] = ids[k]) => ids[j] = ids[i]

\* The first position of x in seq.
FirstPos(seq, x) == CHOOSE i \in 1..Len(seq) : seq[i] = x /\ \A j \in 1..(i - 1) : seq[j] # x

InFirstSeenOrder(ids, order) ==
    \A i, j \in 1..Len(ids) :
       (i < j /\ ids[i] # ids[j]) => FirstPos(order, ids[i]) < FirstPos(order, ids[j])

----------------------------------------------------------------------------
(* Condition matcher: what the claims speak of, stated on the index.       *)

\* a and b are equal up to the case of their letters.
EqualsIgnoreCase(a, b) ==
    /\ Len(a) = Len(b)
    /\ \A i \in 1..Len(a) :
          \/ a[i] = b[i]
          \/ (a[i] \in 65..90 /\ b[i] = a[i] + 32)
          \/ (b[i] \in 65..90 /\ a[i] = b[i] + 32)

HasConditionColumn == CONDITION_NAME \in index_df.cols

\* The positions of the index rows whose condition equals the query up to case.
ExactPositions(query) ==
    {i \in 1..Len(index_df.rows) :
        /\ index_df.rows[i][CONDITION_NAME] # NULL
        /\ EqualsIgnoreCase(index_df.rows[i][CONDITION_NAME], query)}

\* The non-null condition values of the index.
Candidates == {index_df.rows[i][CONDITION_NAME] : i \in 1..Len(index_df.rows)} \ {NULL}

\* Screen ids of the index rows whose condition is exactly value.
IdsOfCondition(value) ==
    {index_df.rows[i][SCREEN_ID] :
        i \in {k \in 1..Len(index_df.rows) : index_df.rows[k][CONDITION_NAME] = value}}

----------------------------------------------------------------------------
(* C1: for a screen whose data file does not exist, and any combination of *)
(* the optional filters, load_screen_tab_filtered returns an empty table   *)
(* and does not raise.                                                     *)
C1_MissingFileGivesEmptyTable ==
    (op = "load_screen_tab_filtered" /\ files[arg.screen_id].status = "missing") =>
       /\ ~ret.raised
       /\ IsEmpty(ret.df)

----------------------------------------------------------------------------
(* C2: in every aggregator a read failure or missing file of one screen is *)
(* an empty contribution: the call does not end in an exception, and the   *)
(* rows of every readable screen of the iteration are in the result.       *)
C2_ReadFailureIsEmptyContribution ==
    /\ op = "get_results_by_screens" =>
         /\ ~ret.raised
         /\ \A i \in 1..Len(AsList(arg.screen_ids)) :
              LET id == AsList(arg.screen_ids)[i]
              IN \A k \in 1..Len(FileRows(id)) :
                   \E j \in 1..Len(ret.df.rows) :
                      Carries(ret.df.rows[j], FileRows(id)[k], id)
    /\ op = "get_results_by_genes" =>
         /\ ~ret.raised
         /\ \A i \in 1..Len(IndexIds) :
              LET m == Matching(IndexIds[i], AsList(arg.gene_symbols))
              IN \A k \in 1..Len(m) :
                   \E j \in 1..Len(ret.df.rows) :
                      Carries(ret.df.rows[j], m[k], IndexIds[i])
    /\ (op = "get_results_by_condition" /\ ret.how \in {"exact", "approx"}) =>
         /\ ~ret.raised
         /\ \A i \in 1..Len(ret.screen_ids) :
              LET id == ret.screen_ids[i]
              IN \A k \in 1..Len(FileRows(id)) :
                   \E j \in 1..Len(ret.df.rows) :
                      Carries(ret.df.rows[j], FileRows(id)[k], id)
    /\ op = "query_gene_across_screens" =>
         /\ ~ret.raised
         /\ \A i \in 1..Len(IndexIds) :
              Matching(IndexIds[i], <<arg.gene_symbol>>) # <<>> =>
                 \E j \in 1..Len(ret.results) :
                    /\ ret.results[j].screen_id = IndexIds[i]
                    /\ ret.results[j].gene_result = Matching(IndexIds[i], <<arg.gene_symbol>>)

----------------------------------------------------------------------------
(* C3: when some index row's condition equals the query up to case, the    *)
(* resolved screen set is exactly the screen ids of those rows, whatever   *)
(* the approximate matcher would have answered.                            *)
C3_ExactMatchTakesPrecedence ==
    (op = "get_results_by_condition" /\ HasConditionColumn
     /\ ExactPositions(arg.virus_query) # {}) =>
       /\ ret.how = "exact"
       /\ Range(ret.screen_ids) =
             {index_df.rows[i][SCREEN_ID] : i \in ExactPositions(arg.virus_query)}
       /\ NoDuplicates(ret.screen_ids)

\* An exact match on one screen while another vocabulary value, on another
\* screen, scores higher and above the threshold.
C3_Witness ==
    /\ op = "get_results_by_condition"
    /\ HasConditionColumn
    /\ ExactPositions(arg.virus_query) # {}
    /\ ~ret.raised
    /\ ret.screen_ids = <<1>>
    /\ \E c \in Candidates :
          /\ ~EqualsIgnoreCase(c, arg.virus_query)
          /\ Exceeds(TokenSortRatio(arg.virus_query, c), arg.threshold)
          /\ IdsOfCondition(c) = {2}
          /\ \A d \in Candidates :
                EqualsIgnoreCase(d, arg.virus_query) =>
                   ScoreGreater(TokenSortRatio(arg.virus_query, c),
                                TokenSortRatio(arg.virus_query, d))

----------------------------------------------------------------------------
(* C4: without an exact match, a best approximate score equal to the       *)
(* threshold t or to t-1 gives the empty result, and a best score of t+1   *)
(* gives the screen ids of the rows whose condition equals the best match. *)
C4_StrictlyAboveThreshold ==
    (op = "get_results_by_condition" /\ HasConditionColumn
     /\ ExactPositions(arg.virus_query) = {} /\ Candidates # {}) =>
       /\ ret.best.found
       /\ (ScoreEquals(ret.best.score, arg.threshold)
           \/ ScoreEquals(ret.best.score, arg.threshold - 1)) =>
              /\ ret.how = "nomatch"
              /\ ~ret.raised
              /\ IsEmpty(ret.df)
              /\ ret.screen_ids = <<>>
       /\ ScoreEquals(ret.best.score, arg.threshold + 1) =>
              /\ ret.how = "approx"
              /\ Range(ret.screen_ids) = IdsOfCondition(ret.best.choice)
              /\ ret.screen_ids # <<>>

\* The best score is exactly the threshold, and nothing is returned.
C4_Witness ==
    /\ op = "get_results_by_condition"
    /\ HasConditionColumn
    /\ ExactPositions(arg.virus_query) = {}
    /\ ret.best.found
    /\ ScoreEquals(ret.best.score, arg.threshold)
    /\ ret.how = "nomatch"

\* The best score is one above the threshold, and the screen of the best
\* match is resolved.
C4_WitnessAbove ==
    /\ op = "get_results_by_condition"
    /\ HasConditionColumn
    /\ ExactPositions(arg.virus_query) = {}
    /\ ret.best.found
    /\ ScoreEquals(ret.best.score, arg.threshold + 1)
    /\ ~ret.raised
    /\ ret.screen_ids = <<2>>

----------------------------------------------------------------------------
(* C5: for every query and index table, also one whose condition column    *)
(* holds no non-null value, when there is neither an exact match nor an    *)
(* approximate match above the threshold get_results_by_condition returns  *)
(* an empty result and does not raise.                                     *)
C5_NoMatchReturnsEmpty ==
    (op = "get_results_by_condition" /\ HasConditionColumn
     /\ ExactPositions(arg.virus_query) = {}
     /\ \A c \in Candidates : ~Exceeds(TokenSortRatio(arg.virus_query, c), arg.threshold)) =>
       /\ ~ret.raised
       /\ IsEmpty(ret.df)

----------------------------------------------------------------------------
(* C6: every row get_results_by_genes returns has an OFFICIAL_SYMBOL that  *)
(* is one of the requested symbols, compared exactly and case-sensitively, *)
(* and every row of every readable indexed screen whose symbol is          *)
(* requested is in the result.                                             *)
C6_GeneFilterExactAndComplete ==
    op = "get_results_by_genes" =>
       /\ \A j \in 1..Len(ret.df.rows) :
             \E k \in 1..Len(AsList(arg.gene_symbols)) :
                ret.df.rows[j][OFFICIAL_SYMBOL] = AsList(arg.gene_symbols)[k]
       /\ \A i \in 1..Len(IndexIds) :
             LET m == Matching(IndexIds[i], AsList(arg.gene_symbols))
             IN \A k \in 1..Len(m) :
                  \E j \in 1..Len(ret.df.rows) :
                     Carries(ret.df.rows[j], m[k], IndexIds[i])

----------------------------------------------------------------------------
(* C7 as claimed: in the output of get_results_by_screens and of           *)
(* get_results_by_genes all rows of one screen are contiguous, and the     *)
(* screens appear in the order in which the request (the index) first      *)
(* names them.                                                             *)
C7_ContiguousInFirstSeenOrder ==
    /\ (op = "get_results_by_screens" /\ ~ret.raised) =>
          /\ Contiguous(OutIds(ret.df))
          /\ InFirstSeenOrder(OutIds(ret.df), AsList(arg.screen_ids))
    /\ (op = "get_results_by_genes" /\ ~ret.raised) =>
          /\ Contiguous(OutIds(ret.df))
          /\ InFirstSeenOrder(OutIds(ret.df), Column(index_df, SCREEN_ID))

(* C7, amended: the output of get_results_by_screens holds one group of     *)
(* rows per requested list entry, in list order (an identifier listed      *)
(* twice gives its rows twice, so the rows of one screen are contiguous    *)
(* and in first-seen order when no identifier is listed twice); the output *)
(* of get_results_by_genes holds                                           *)
(* one group per distinct index identifier, in first-occurrence order; a   *)
(* screen with no rows gives an empty group.                               *)
C7_GroupsInRequestOrder ==
    /\ (op = "get_results_by_screens" /\ ~ret.raised) =>
          LET req == AsList(arg.screen_ids)
          IN /\ OutIds(ret.df) =
                  Flatten([i \in 1..Len(req) |-> Repeat(req[i], Len(FileRows(req[i])))])
             /\ NoDuplicates(req) =>
                   /\ Contiguous(OutIds(ret.df))
                   /\ InFirstSeenOrder(OutIds(ret.df), req)
    /\ (op = "get_results_by_genes" /\ ~ret.raised) =>
          /\ OutIds(ret.df) =
               Flatten([i \in 1..Len(IndexIds) |->
                          Repeat(IndexIds[i],
                                 Len(Matching(IndexIds[i], AsList(arg.gene_symbols))))])
          /\ Contiguous(OutIds(ret.df))
          /\ InFirstSeenOrder(OutIds(ret.df), Column(index_df, SCREEN_ID))

\* Both screens give rows, requested as [2, 1]; and the index names screen
\* 2 before screen 1 and both give rows for the requested genes.
C7_Witness ==
    \/ /\ op = "get_results_by_screens"
       /\ arg.screen_ids = AList(<<2, 1>>)
       /\ ~ret.raised
       /\ Len(FileRows(1)) = 2
       /\ OutIds(ret.df) = <<2, 1, 1>>
    \/ /\ op = "get_results_by_genes"
       /\ ~ret.raised
       /\ Column(index_df, SCREEN_ID) = <<2, 1>>
       /\ OutIds(ret.df) = <<2, 2, 1>>

----------------------------------------------------------------------------
(* C8: enrichment in get_results_by_genes never overwrites.  Every output  *)
(* row keeps the cells of a row of its screen's table and the attached     *)
(* SCREEN_ID, also where the index has a column of the same name; the      *)
(* index columns the screen result lacks are added, each with the value of *)
(* the screen's (first) index row.                                         *)
C8_EnrichmentNeverOverwrites ==
    (op = "get_results_by_genes" /\ ~ret.raised) =>
       \A j \in 1..Len(ret.df.rows) :
          LET out == ret.df.rows[j]
              id == out[SCREEN_ID]
              meta == Meta(index_df, id)
          IN /\ ret.df.cols = files[id].df.cols \cup {SCREEN_ID} \cup index_df.cols
             /\ \E k \in 1..Len(FileRows(id)) : Carries(out, FileRows(id)[k], id)
             /\ \A c \in index_df.cols \ (files[id].df.cols \cup {SCREEN_ID}) :
                   out[c] = meta.rows[1][c]

\* A returned row keeps its own CELL_LINE although the index row of its
\* screen has another, and gains the index's CONDITION_NAME.
C8_Witness ==
    /\ op = "get_results_by_genes"
    /\ ~ret.raised
    /\ \E j \in 1..Len(ret.df.rows) :
          LET out == ret.df.rows[j]
              meta == Meta(index_df, out[SCREEN_ID])
          IN /\ CELL_LINE \in files[out[SCREEN_ID]].df.cols
             /\ out[CELL_LINE] = HeLa
             /\ meta.rows[1][CELL_LINE] = A549
             /\ out[CONDITION_NAME] = Str_ab
             /\ Len(meta.rows) = 2
             /\ meta.rows[2][CONDITION_NAME] = NULL

\* Row satisfies every predicate the call a was given.
Satisfies(row, a) ==
    /\ a.gene_symbols.kind = "str" => row[OFFICIAL_SYMBOL] = a.gene_symbols.s
    /\ a.gene_symbols.kind = "list" =>
          \E k \in 1..Len(a.gene_symbols.v) : row[OFFICIAL_SYMBOL] = a.gene_symbols.v[k]
    /\ a.hit_value.kind # "none" => row[HIT] = a.hit_value.s
    /\ a.score2_max.kind # "none" => (row[SCORE2] # NaN /\ row[SCORE2] <= a.score2_max.x)

----------------------------------------------------------------------------
----------------------------------------------------------------------------
(* C10: each vocabulary list holds the distinct non-null values of its     *)
(* index column, without duplicates, in order of first occurrence, and is  *)
(* empty when the index has no such column; list_viruses, list_cell_lines  *)
(* and list_species return these lists.                                    *)
IsVocabulary(list, col) ==
    IF col \notin index_df.cols THEN list = <<>>
    ELSE LET column == Column(index_df, col)
         IN /\ NoDuplicates(list)
            /\ Range(list) = Range(column) \ {NULL}
            /\ \A i, j \in 1..Len(list) :
                  i < j => FirstPos(column, list[i]) < FirstPos(column, list[j])

C10_VocabularyLists ==
    /\ IsVocabulary(virus_options, CONDITION_NAME)
    /\ IsVocabulary(cell_line_options, CELL_LINE)
    /\ IsVocabulary(species_options, ORGANISM_OFFICIAL)
    /\ op = "list_viruses" => (~ret.raised /\ ret.list = virus_options)
    /\ op = "list_cell_lines" => (~ret.raised /\ ret.list = cell_line_options)
    /\ op = "list_species" => (~ret.raised /\ ret.list = species_options)

\* A column with a null and a repeated value: the list keeps the first
\* occurrences, in order.
C10_Witness ==
    /\ op = "list_viruses"
    /\ index_df.cols = {SCREEN_ID, CONDITION_NAME, CELL_LINE, ORGANISM_OFFICIAL}
    /\ Len(index_df.rows) = 3
    /\ Column(index_df, CONDITION_NAME) = <<Str_ab, NULL, Str_AC>>
    /\ Column(index_df, CELL_LINE) = <<A549, NULL, A549>>
    /\ ret.list = <<Str_ab, Str_AC>>
    /\ cell_line_options = <<A549>>

----------------------------------------------------------------------------
(* C11: after any sequence of Send and Reset the first entry of             *)
(* chat_history is the system prompt and no other entry has role system;   *)
(* Reset leaves exactly the system-prompt entry; a Send with blank input   *)
(* leaves chat_history unchanged; a Send with non-blank input appends one  *)
(* human entry holding the stripped input, then one ai entry, then zero or *)
(* more trace entries, so every human entry is immediately followed by an  *)
(* ai entry.                                                                *)
SystemPromptFirst ==
    /\ Len(chat_history) >= 1
    /\ chat_history[1] = SystemEntry
    /\ \A i \in 2..Len(chat_history) : chat_history[i][1] # "system"

HumanAnswered ==
    \A i \in 1..Len(chat_history) :
        chat_history[i][1] = "human" =>
            i < Len(chat_history) /\ chat_history[i + 1][1] = "ai"

IsBlank(s) == \A i \in 1..Len(s) : IsSpace(s[i])

\* The entries chat_history' has beyond chat_history.
Appended == SubSeq(chat_history', Len(chat_history) + 1, Len(chat_history'))

ResetStep == op' = "reset" => chat_history' = <<SystemEntry>>

BlankSendStep ==
    (op' = "send" /\ IsBlank(arg'.user_input)) => chat_history' = chat_history

SendStep ==
    (op' = "send" /\ ~IsBlank(arg'.user_input)) =>
        /\ Len(chat_history') >= Len(chat_history) + 2
        /\ SubSeq(chat_history', 1, Len(chat_history)) = chat_history
        /\ Appended[1][1] = "human"
        /\ ~IsBlank(Appended[1][2])
        /\ \E l, r \in 0..Len(arg'.user_input) :
              /\ l + r + Len(Appended[1][2]) = Len(arg'.user_input)
              /\ IsBlank(SubSeq(arg'.user_input, 1, l))
              /\ IsBlank(SubSeq(arg'.user_input, Len(arg'.user_input) - r + 1,
                                Len(arg'.user_input)))
              /\ Appended[1][2] = SubSeq(arg'.user_input, l + 1, Len(arg'.user_input) - r)
              /\ ~IsSpace(Appended[1][2][1])
              /\ ~IsSpace(Appended[1][2][Len(Appended[1][2])])
        /\ Appended[2][1] = "ai"
        /\ \A i \in 3..Len(Appended) : Appended[i][1] = "trace"

C11_TranscriptWellFormed ==
    /\ [](SystemPromptFirst /\ HumanAnswered)
    /\ [][ResetStep /\ BlankSendStep /\ SendStep]_vars

====
